---- MODULE Spec2Model ----
(***************************************************************************)
(* A model of seer2arff.py: fixed-width SEER fields, their conversion to   *)
(* ARFF values, the row predicates and their combinator, and the to_arff   *)
(* driver.                                                                 *)
(*                                                                         *)
(* A Python str is a sequence of one-character strings.  The outcome of a  *)
(* call is a record [exc, val]: exc = "" and val the returned str, or exc  *)
(* the name of the exception that left the call.  The semantics are those  *)
(* of Python 2, which the source is written for (reduce is a builtin).     *)
(***************************************************************************)
EXTENDS Integers, Sequences, FiniteSets, TLC

VARIABLES
    pc,             \* where the program is
    DEFAULT_STR,    \* the module global of line 15, reassigned at line 487
    attr,           \* the attribute (self) of the last method call
    row,            \* the seer_string of the last call
    attributes,     \* the attribute list of the last format_instance call
    func_list,      \* the list get_truth_combinator closed over
    results,        \* is_all_true: the results collected so far
    outcome,        \* what the last call returned or raised
    keys,           \* to_arff: attribs.values()
    filters,        \* to_arff: the filters argument
    lines,          \* to_arff: the lines read from infile so far
    outfile,        \* to_arff: what was written to outfile, write by write
    totalRecords,   \* to_arff: the counter of lines read
    selectedRecords,\* to_arff: the counter of lines written
    infile_open,    \* to_arff: infile is open
    outfile_open,   \* to_arff: outfile is open
    log             \* the messages given to log.info

unit == <<attr, row, attributes, func_list, results>>

arff == <<keys, filters, lines, outfile, totalRecords, selectedRecords, infile_open,
          outfile_open, log>>

vars == <<pc, DEFAULT_STR, outcome, unit, arff>>

----------------------------------------------------------------------------
(* Bounds of the model *)

MaxRowLen == 4
MaxStart == 2
MaxAttrs == 2
MaxFuncs == 2
MaxRows == 3
MaxKeys == 2

(* The characters rows are made of: digits of the SEER codes, the blank,
   the line terminator that a line read from a file ends with, and a sign,
   which int() reads. *)
Alphabet == {"0", "1", "4", "9", " ", "\n", "-"}

Digits == {"0", "1", "2", "3", "4", "5", "6", "7", "8", "9"}

(* The vertical tab, chr(11): the string holds the character itself *)
VerticalTab == ""

(* The characters int() strips: those str.isspace holds of *)
Whitespace == {" ", "\t", "\n", VerticalTab, "\f", "\r"}

Signs == {"+", "-"}

(* Values of the -t option, an int of either sign *)
Thresholds == {-5, 12, 24, 48}

RECURSIVE SeqsUpTo(_, _)
SeqsUpTo(S, n) ==
    IF n = 0 THEN {<<>>}
    ELSE LET shorter == SeqsUpTo(S, n - 1)
         IN  shorter \cup {Append(s, c) : s \in {t \in shorter : Len(t) = n - 1}, c \in S}

Rows == SeqsUpTo(Alphabet, MaxRowLen)

----------------------------------------------------------------------------
(* Python values *)

Return(v) == [exc |-> "", val |-> v]

Raise(e) == [exc |-> e, val |-> <<>>]

NoOutcome == [exc |-> "none", val |-> <<>>]

Min(a, b) == IF a <= b THEN a ELSE b

(* s[lo:hi] for 0 <= lo: the characters at the 0-based places lo .. hi-1 that
   exist; a negative hi counts from the end; a slice never raises, it is cut
   at the end of s. *)
Slice(s, lo, hi) ==
    LET stop == IF hi < 0 THEN (IF Len(s) + hi < 0 THEN 0 ELSE Len(s) + hi) ELSE hi
        last == Min(stop, Len(s))
    IN  IF lo >= last THEN <<>> ELSE SubSeq(s, lo + 1, last)

(* sub in s *)
Contains(s, sub) ==
    \E i \in 0 .. Len(s) : Slice(s, i, i + Len(sub)) = sub /\ i + Len(sub) <= Len(s)

(* What '$' lets a pattern end before: the end of the string, or one final
   line terminator. *)
BeforeDollar(s) ==
    IF Len(s) >= 1 /\ s[Len(s)] = "\n" THEN SubSeq(s, 1, Len(s) - 1) ELSE s

(* s.strip() as int() applies it *)
RECURSIVE LStrip(_)
LStrip(s) == IF s # <<>> /\ Head(s) \in Whitespace THEN LStrip(Tail(s)) ELSE s

RECURSIVE RStrip(_)
RStrip(s) ==
    IF s # <<>> /\ s[Len(s)] \in Whitespace THEN RStrip(SubSeq(s, 1, Len(s) - 1)) ELSE s

DigitValue(c) ==
    CASE c = "0" -> 0 [] c = "1" -> 1 [] c = "2" -> 2 [] c = "3" -> 3 [] c = "4" -> 4
      [] c = "5" -> 5 [] c = "6" -> 6 [] c = "7" -> 7 [] c = "8" -> 8 [] c = "9" -> 9

DigitChar(n) ==
    CASE n = 0 -> "0" [] n = 1 -> "1" [] n = 2 -> "2" [] n = 3 -> "3" [] n = 4 -> "4"
      [] n = 5 -> "5" [] n = 6 -> "6" [] n = 7 -> "7" [] n = 8 -> "8" [] n = 9 -> "9"

(* The digits of the numeral s: int() skips whitespace, reads one sign,
   skips whitespace again, and reads digits up to the trailing whitespace *)
Unsigned(s) ==
    LET t == LStrip(RStrip(s))
    IN  IF t # <<>> /\ Head(t) \in Signs THEN LStrip(Tail(t)) ELSE t

(* int(s) raises ValueError unless s, stripped, is an optional sign and a
   non-empty run of digits *)
IntRaises(s) ==
    LET u == Unsigned(s)
    IN  u = <<>> \/ \E i \in 1 .. Len(u) : u[i] \notin Digits

RECURSIVE DecimalValue(_)
DecimalValue(t) ==
    IF t = <<>> THEN 0
    ELSE DecimalValue(SubSeq(t, 1, Len(t) - 1)) * 10 + DigitValue(t[Len(t)])

IntOf(s) ==
    LET t == LStrip(RStrip(s))
    IN  IF t # <<>> /\ Head(t) = "-" THEN 0 - DecimalValue(Unsigned(s))
        ELSE DecimalValue(Unsigned(s))

(* str(n) *)
RECURSIVE StrOf(_)
StrOf(n) ==
    IF n < 0 THEN <<"-">> \o StrOf(0 - n)
    ELSE IF n < 10 THEN <<DigitChar(n)>>
    ELSE Append(StrOf(n \div 10), DigitChar(n % 10))

----------------------------------------------------------------------------
(* The attribute classes *)

(* SeerAttribute.__init__ *)
NewAttribute(cls, start, length, name, datatype) ==
    [cls |-> cls, start |-> start - 1, length |-> length, name |-> name,
     datatype |-> datatype]

NoAttribute == NewAttribute("none", 1, 0, "", "")

end(self) == self.start + self.length

_get_from_seer(self, seer_string) == Slice(seer_string, self.start, end(self))

(* re.search('^9+$', value) *)
AllNines(value) ==
    LET body == BeforeDollar(value)
    IN  Len(body) >= 1 /\ \A i \in 1 .. Len(body) : body[i] = "9"

nines_to_question_mark(value) == IF AllNines(value) THEN <<"?">> ELSE value

(* the wrapper format_blank puts around a function's value *)
remove_blank(value) ==
    IF \E i \in 1 .. Len(value) : value[i] = " " THEN <<"?">> ELSE value

SeerAttribute_get_attribute(self, seer_string) ==
    Return(remove_blank(nines_to_question_mark(_get_from_seer(self, seer_string))))

(* re.search('^4$', value) *)
IsFour(value) == BeforeDollar(value) = <<"4">>

ErPrStatusRecord_get_attribute(self, seer_string) ==
    LET value == SeerAttribute_get_attribute(self, seer_string).val
    IN  IF IsFour(value) THEN Return(<<"?">>) ELSE Return(value)

_to_months(self, seer_string) ==
    LET val == _get_from_seer(self, seer_string)
    IN  IF Contains(val, <<"9", "9", "9", "9">>) \/ Contains(val, <<" ">>)
        THEN Return(<<"?">>)
        ELSE IF IntRaises(Slice(val, 0, 2)) \/ IntRaises(Slice(val, 2, 4))
        THEN Raise("ValueError")
        ELSE Return(StrOf(IntOf(Slice(val, 0, 2)) * 12 + IntOf(Slice(val, 2, 4))))

(* _to_nominal with the comparison months < TIER1 *)
_to_nominal_strict(months) ==
    IF IntRaises(months) THEN Raise("ValueError")
    ELSE IF IntOf(months) < DEFAULT_STR THEN Return(<<"1">>) ELSE Return(<<"2">>)

_to_nominal(months) ==
    IF IntRaises(months) THEN Raise("ValueError")
    ELSE IF IntOf(months) <= DEFAULT_STR THEN Return(<<"1">>) ELSE Return(<<"2">>)

SurvivalTimeRecode_get_attribute(self, seer_string) ==
    LET months == _to_months(self, seer_string)
    IN  IF months.exc # "" THEN months ELSE _to_nominal(months.val)

(* attrib.get_attribute(row): the method the class of attrib resolves it to *)
get_attribute(self, seer_string) ==
    CASE self.cls = "ErPrStatusRecord" -> ErPrStatusRecord_get_attribute(self, seer_string)
      [] self.cls = "SurvivalTimeRecode" ->
             SurvivalTimeRecode_get_attribute(self, seer_string)
      [] OTHER -> SeerAttribute_get_attribute(self, seer_string)

----------------------------------------------------------------------------
(* format_instance *)

RECURSIVE format_loop(_, _, _)
format_loop(seer_row, attribs, output) ==
    IF attribs = <<>> THEN Return(output)
    ELSE LET value == get_attribute(Head(attribs), seer_row)
         IN  IF value.exc # "" THEN value
             ELSE format_loop(seer_row, Tail(attribs), output \o value.val \o <<",">>)

(* format_instance going through the attributes last to first *)
format_instance_reversed(seer_row, attribs) ==
    LET looped == format_loop(seer_row, [i \in 1 .. Len(attribs) |-> attribs[Len(attribs) + 1 - i]],
                              <<>>)
    IN  IF looped.exc # "" THEN looped
        ELSE Return(Slice(looped.val, 0, Len(looped.val) - 1))

format_instance(seer_row, attribs) ==
    LET looped == format_loop(seer_row, attribs, <<>>)
    IN  IF looped.exc # "" THEN looped
        ELSE Return(Slice(looped.val, 0, Len(looped.val) - 1))

----------------------------------------------------------------------------
(* The predicates and their combinator.  A Python object that is not a str
   is a one-element sequence naming it. *)

PyTrue == <<"True">>

PyFalse == <<"False">>

PyNone == <<"None">>

PyMatch == <<"Match">>

Truthy(x) == x \in {PyTrue, PyMatch}

is_match(self, seer_string, match) ==
    IF _get_from_seer(self, seer_string) = match THEN Return(PyTrue) ELSE Return(PyFalse)

is_dead(self, seer_string) == is_match(self, seer_string, <<"4">>)

is_dead_from_cancer(self, seer_string) == is_match(self, seer_string, <<"1">>)

(* re.search('^4\d$', val): a match object or None *)
is_stage_iv(self, seer_string) ==
    LET body == BeforeDollar(_get_from_seer(self, seer_string))
    IN  IF Len(body) = 2 /\ body[1] = "4" /\ body[2] \in Digits
        THEN Return(PyMatch) ELSE Return(PyNone)

(* get_year_filter defines is_year_greater_than and does not return it *)
get_year_filter == [fn |-> "None", self |-> NoAttribute]

BoundMethod(fn, self) == [fn |-> fn, self |-> self]

(* f(seer_string) for an element f of func_list *)
call(f, seer_string) ==
    CASE f.fn = "is_stage_iv" -> is_stage_iv(f.self, seer_string)
      [] f.fn = "is_dead" -> is_dead(f.self, seer_string)
      [] f.fn = "is_dead_from_cancer" -> is_dead_from_cancer(f.self, seer_string)
      [] OTHER -> Raise("TypeError")

(* lambda x, y: y *)
py_and_last(x, y) == y

(* lambda x, y: x and y *)
py_and(x, y) == IF Truthy(x) THEN y ELSE x

(* reduce(lambda x, y: x and y, res, True) *)
RECURSIVE reduce_and(_, _)
reduce_and(res, initial) ==
    IF res = <<>> THEN initial ELSE reduce_and(Tail(res), py_and(initial, Head(res)))

(* A loop that stops at the first result that is not true *)
PendingShortCircuit(funcs, res) ==
    Len(res) < Len(funcs) /\ \A i \in 1 .. Len(res) : Truthy(res[i])

(* The list comprehension of is_all_true has calls left to make. *)
Pending(funcs, res) == Len(res) < Len(funcs)

(* is_all_true(seer_string), for the closure over funcs, as one value *)
RECURSIVE comprehension(_, _, _)
comprehension(funcs, seer_string, res) ==
    IF ~Pending(funcs, res) THEN Return(res)
    ELSE LET r == call(funcs[Len(res) + 1], seer_string)
         IN  IF r.exc # "" THEN r ELSE comprehension(funcs, seer_string, Append(res, r.val))

is_all_true(funcs, seer_string) ==
    LET res == comprehension(funcs, seer_string, <<>>)
    IN  IF res.exc # "" THEN res ELSE Return(reduce_and(res.val, PyTrue))

----------------------------------------------------------------------------
(* load_seer_types: the attributes of d, in the order builder adds them *)

d ==
    <<NewAttribute("SeerNominalAttribute", 19, 1, "marital-status-at-dx", "{1,2,3,4,5}"),
      NewAttribute("SeerAttribute", 25, 3, "age-at-dx", "numeric"),
      NewAttribute("SeerAttribute", 39, 4, "year-of-dx", "numeric"),
      NewAttribute("SeerNominalAttribute", 58, 1, "grade", "{1,2,3,4}"),
      NewAttribute("SeerAttribute", 61, 3, "eod-tumor-size", "numeric"),
      NewAttribute("SeerNominalAttribute", 68, 1, "eod-lymph-node-involv",
                   "{0,1,2,3,4,5,6,7,8}"),
      NewAttribute("SeerNominalAttribute", 166, 1, "reason-for-no-surgery",
                   "{0,1,2,6,7,8}"),
      NewAttribute("SeerNominalAttribute", 234, 1, "race-recode", "{1,2,3,4,7}"),
      NewAttribute("SurvivalTimeRecode", 251, 4, "survival-time-recode", "{1,2}"),
      NewAttribute("VitalStatusRecode", 265, 1, "vital-status-recode", "numeric"),
      NewAttribute("CauseSpecificDeathClassification", 272, 1,
                   "seer-cause-specific-death-classification", "numeric"),
      NewAttribute("ErPrStatusRecord", 278, 1, "er-status-recode-breast-cancer",
                   "{1,2,3}"),
      NewAttribute("ErPrStatusRecord", 279, 1, "pr-status-recode-breast-cancer",
                   "{1,2,3}"),
      NewAttribute("AJCCStage3rdEdition", 237, 2, "ajcc-stage-3rd-edition", "numeric")>>

(* d[name] *)
d_get(name) == d[CHOOSE i \in 1 .. Len(d) : d[i].name = name]

(* the module-level list filters *)
module_filters ==
    <<BoundMethod("is_stage_iv", d_get("ajcc-stage-3rd-edition")),
      BoundMethod("is_dead_from_cancer", d_get("seer-cause-specific-death-classification")),
      BoundMethod("is_dead", d_get("vital-status-recode"))>>

get_relation == <<"@relation breast">>

get_meta_string(self) == <<"@attribute ", self.name, " ", self.datatype>>

(* The filters argument of to_arff: None, or the function that
   get_truth_combinator(funcs) returned. *)
NoFilters == [none |-> TRUE, funcs |-> <<>>]

get_truth_combinator(funcs) == [none |-> FALSE, funcs |-> funcs]

(* filters == None or filters(line) *)
selects(filter, line) ==
    IF filter.none THEN Return(PyTrue) ELSE is_all_true(filter.funcs, line)

----------------------------------------------------------------------------
(* Calls of get_attribute, after the module is loaded or the options parsed *)

Init ==
    /\ pc = "loaded"
    /\ DEFAULT_STR = 24
    /\ attr = NoAttribute
    /\ row = <<>>
    /\ attributes = <<>>
    /\ func_list = <<>>
    /\ results = <<>>
    /\ outcome = NoOutcome
    /\ keys = <<>>
    /\ filters = NoFilters
    /\ lines = <<>>
    /\ outfile = <<>>
    /\ totalRecords = 0
    /\ selectedRecords = 0
    /\ infile_open = FALSE
    /\ outfile_open = FALSE
    /\ log = <<>>

(* __main__ up to the call of to_arff: output_file = args[0], which raises
   IndexError when no argument is given, then DEFAULT_STR = opts.time and the
   log message that tells it *)
ParseOptions ==
    /\ pc = "loaded"
    /\ \/ /\ \E t \in Thresholds : DEFAULT_STR' = t
          /\ log' = Append(log, <<"Using survival time recode value of ">>
                                    \o StrOf(DEFAULT_STR') \o <<" months">>)
          /\ pc' = "parsed"
          /\ UNCHANGED outcome
       \/ /\ outcome' = Raise("IndexError")
          /\ pc' = "raised"
          /\ UNCHANGED <<DEFAULT_STR, log>>
    /\ UNCHANGED <<unit, keys, filters, lines, outfile, totalRecords, selectedRecords,
                   infile_open, outfile_open>>

FieldAttributes(classes) ==
    {NewAttribute(c, s, l, "field", "numeric") :
        c \in classes, s \in 1 .. MaxStart, l \in 1 .. MaxRowLen}

CallGetAttribute(classes) ==
    /\ pc \in {"loaded", "parsed"}
    /\ \E a \in FieldAttributes(classes), r \in Rows :
          /\ attr' = a
          /\ row' = r
          /\ outcome' = get_attribute(a, r)
    /\ pc' = "called"
    /\ UNCHANGED <<DEFAULT_STR, attributes, func_list, results, arff>>

CallPlain == CallGetAttribute({"SeerAttribute"})

CallErPr == CallGetAttribute({"ErPrStatusRecord"})

CallSurvival == CallGetAttribute({"SurvivalTimeRecode"})

NextAttr == ParseOptions \/ CallPlain \/ CallErPr \/ CallSurvival

SpecAttr == Init /\ [][NextAttr]_vars

----------------------------------------------------------------------------
(* Calls of format_instance *)

DeclaredPool ==
    {NewAttribute("SeerAttribute", 1, 1, "a", "numeric"),
     NewAttribute("SeerNominalAttribute", 2, 2, "b", "{1,4}"),
     NewAttribute("ErPrStatusRecord", 2, 1, "c", "{1,2,3}"),
     NewAttribute("SurvivalTimeRecode", 1, 4, "d", "{1,2}")}

AttributeLists == SeqsUpTo(DeclaredPool, MaxAttrs)

CallFormatInstance ==
    /\ pc = "loaded"
    /\ \E l \in AttributeLists, r \in Rows :
          /\ attributes' = l
          /\ row' = r
          /\ outcome' = format_instance(r, l)
    /\ pc' = "formatted"
    /\ UNCHANGED <<DEFAULT_STR, attr, func_list, results, arff>>

NextFormat == CallFormatInstance

SpecFormat == Init /\ [][NextFormat]_vars

----------------------------------------------------------------------------
(* A call of the function get_truth_combinator returned, one step for each
   call the list comprehension makes and one for the reduce *)

StageField == NewAttribute("AJCCStage3rdEdition", 1, 2, "stage", "numeric")

CauseField == NewAttribute("CauseSpecificDeathClassification", 3, 1, "cause", "numeric")

VitalField == NewAttribute("VitalStatusRecode", 4, 1, "vital", "numeric")

FuncPool ==
    {BoundMethod("is_stage_iv", StageField),
     BoundMethod("is_dead_from_cancer", CauseField),
     BoundMethod("is_dead", VitalField),
     get_year_filter}

FuncLists == SeqsUpTo(FuncPool, MaxFuncs)

CallIsAllTrue ==
    /\ pc = "loaded"
    /\ \E l \in FuncLists, r \in Rows :
          /\ func_list' = l
          /\ row' = r
    /\ results' = <<>>
    /\ pc' = "comprehension"
    /\ UNCHANGED <<DEFAULT_STR, attr, attributes, outcome, arff>>

EvalNext ==
    /\ pc = "comprehension"
    /\ Pending(func_list, results)
    /\ LET r == call(func_list[Len(results) + 1], row)
       IN  \/ /\ r.exc = ""
              /\ results' = Append(results, r.val)
              /\ UNCHANGED <<pc, outcome>>
           \/ /\ r.exc # ""
              /\ outcome' = r
              /\ pc' = "raised"
              /\ UNCHANGED results
    /\ UNCHANGED <<DEFAULT_STR, attr, row, attributes, func_list, arff>>

Reduce ==
    /\ pc = "comprehension"
    /\ ~Pending(func_list, results)
    /\ outcome' = Return(reduce_and(results, PyTrue))
    /\ pc' = "reduced"
    /\ UNCHANGED <<DEFAULT_STR, attr, row, attributes, func_list, results, arff>>

NextComb == CallIsAllTrue \/ EvalNext \/ Reduce

SpecComb == Init /\ [][NextComb]_vars

----------------------------------------------------------------------------
(* to_arff: one step for each open, each write of the header and each line
   of the input, which is read as the scan goes *)

(* The length of a record that holds every field of d *)
RecordLen == CHOOSE n \in {end(a) : a \in {d[i] : i \in 1 .. Len(d)}} :
                 \A i \in 1 .. Len(d) : end(d[i]) <= n

(* A line of the input whose fields named in codes hold these codes, with 1
   at every other place *)
Line(codes) ==
    [i \in 1 .. RecordLen |->
        IF \E a \in DOMAIN codes : d_get(a).start < i /\ i <= end(d_get(a))
        THEN LET a == CHOOSE a \in DOMAIN codes : d_get(a).start < i /\ i <= end(d_get(a))
             IN  codes[a][i - d_get(a).start]
        ELSE "1"] \o <<"\n">>

Codes(stage, cause, vital, survival) ==
    [a \in {"ajcc-stage-3rd-edition", "seer-cause-specific-death-classification",
            "vital-status-recode", "survival-time-recode"} |->
        CASE a = "ajcc-stage-3rd-edition" -> stage
          [] a = "seer-cause-specific-death-classification" -> cause
          [] a = "vital-status-recode" -> vital
          [] OTHER -> survival]

InputLines ==
    {Line(Codes(<<"4", "0">>, <<"1">>, <<"4">>, <<"0", "1", "0", "0">>)),
     Line(Codes(<<"4", "0">>, <<"1">>, <<"4">>, <<"9", "9", "9", "9">>)),
     Line(Codes(<<"1", "0">>, <<"1">>, <<"4">>, <<"0", "4", "0", "0">>)),
     Line(Codes(<<"4", "9">>, <<"1">>, <<"1">>, <<"0", "1", "0", "1">>)),
     Line(Codes(<<"4", "0">>, <<"0">>, <<"4">>, <<" ", " ", " ", " ">>)),
     SubSeq(Line(Codes(<<"4", "0">>, <<"1">>, <<"4">>, <<"0", "1", "0", "0">>)), 1, 250)
        \o <<"\n">>}

(* The attribs argument: a dict, given as the set of its values.  The dicts
   here hold at most MaxKeys of these attributes of d; d itself, which
   __main__ passes, holds 14. *)
DictPool ==
    {d_get("ajcc-stage-3rd-edition"), d_get("survival-time-recode"),
     d_get("er-status-recode-breast-cancer")}

AttribDicts == {attribs \in SUBSET DictPool : Cardinality(attribs) <= MaxKeys}

(* attribs.values(): a dict of Python 2 iterates in an order that depends on
   the hashes of its keys, so in any order; every value comes once. *)
values(attribs) ==
    {order \in [1 .. Cardinality(attribs) -> attribs] :
        \A a \in attribs : \E i \in 1 .. Cardinality(attribs) : order[i] = a}

FilterArguments ==
    {NoFilters,
     get_truth_combinator(module_filters),
     get_truth_combinator(<<>>),
     get_truth_combinator(Append(module_filters, get_year_filter))}

CallToArff ==
    /\ pc \in {"loaded", "parsed"}
    /\ \E attribs \in AttribDicts, f \in FilterArguments :
          /\ keys' \in values(attribs)
          /\ filters' = f
    /\ log' = Append(log, <<"Started conversion.">>)
    /\ pc' = "open_output"
    /\ UNCHANGED <<DEFAULT_STR, outcome, unit, lines, outfile, totalRecords,
                   selectedRecords, infile_open, outfile_open>>

(* An exception that leaves the files as they are *)
UnwindLeak(raised) ==
    /\ outcome' = raised
    /\ UNCHANGED <<infile_open, outfile_open>>
    /\ pc' = "raised"

(* An exception leaves the with blocks: each file that was opened is closed
   on the way out, and the exception goes on to the caller. *)
Unwind(raised) ==
    /\ outcome' = raised
    /\ infile_open' = FALSE
    /\ outfile_open' = FALSE
    /\ pc' = "raised"

(* open(output, "w") *)
OpenOutput ==
    /\ pc = "open_output"
    /\ \/ /\ outfile_open' = TRUE
          /\ outfile' = <<>>
          /\ pc' = "open_input"
          /\ UNCHANGED <<outcome, infile_open>>
       \/ /\ Unwind(Raise("IOError"))
          /\ UNCHANGED outfile
    /\ UNCHANGED <<DEFAULT_STR, unit, keys, filters, lines, totalRecords,
                   selectedRecords, log>>

(* open(seer_file) *)
OpenInput ==
    /\ pc = "open_input"
    /\ \/ /\ infile_open' = TRUE
          /\ pc' = "relation"
          /\ UNCHANGED <<outcome, outfile_open>>
       \/ Unwind(Raise("IOError"))
    /\ UNCHANGED <<DEFAULT_STR, unit, keys, filters, lines, outfile, totalRecords,
                   selectedRecords, log>>

WriteRelation ==
    /\ pc = "relation"
    /\ outfile' = Append(outfile, get_relation \o <<"\n">>)
    /\ pc' = "attributes"
    /\ UNCHANGED <<DEFAULT_STR, outcome, unit, keys, filters, lines, totalRecords,
                   selectedRecords, infile_open, outfile_open, log>>

(* for k in keys: outfile.write(k.get_meta_string() + "\n") *)
WriteMetaString ==
    /\ pc = "attributes"
    /\ Len(outfile) - 1 < Len(keys)
    /\ outfile' = Append(outfile, get_meta_string(keys[Len(outfile)]) \o <<"\n">>)
    /\ UNCHANGED <<pc, DEFAULT_STR, outcome, unit, keys, filters, lines, totalRecords,
                   selectedRecords, infile_open, outfile_open, log>>

WriteDataMarker ==
    /\ pc = "attributes"
    /\ Len(outfile) - 1 = Len(keys)
    /\ outfile' = Append(outfile, <<"\n", "@data", "\n">>)
    /\ totalRecords' = 0
    /\ selectedRecords' = 0
    /\ pc' = "scan"
    /\ UNCHANGED <<DEFAULT_STR, outcome, unit, keys, filters, lines, infile_open,
                   outfile_open, log>>

(* One turn of for line in infile *)
ProcessLine ==
    /\ pc = "scan"
    /\ Len(lines) < MaxRows
    /\ \E line \in InputLines :
          /\ lines' = Append(lines, line)
          /\ totalRecords' = totalRecords + 1
          /\ LET selected == selects(filters, line)
                 formatted == format_instance(line, keys)
             IN  \/ /\ selected.exc # ""
                    /\ Unwind(selected)
                    /\ UNCHANGED <<outfile, selectedRecords>>
                 \/ /\ selected.exc = ""
                    /\ ~Truthy(selected.val)
                    /\ UNCHANGED <<pc, outcome, outfile, selectedRecords, infile_open,
                                   outfile_open>>
                 \/ /\ selected.exc = ""
                    /\ Truthy(selected.val)
                    /\ formatted.exc # ""
                    /\ Unwind(formatted)
                    /\ UNCHANGED <<outfile, selectedRecords>>
                 \/ /\ selected.exc = ""
                    /\ Truthy(selected.val)
                    /\ formatted.exc = ""
                    /\ outfile' = Append(outfile, formatted.val \o <<"\n">>)
                    /\ selectedRecords' = selectedRecords + 1
                    /\ UNCHANGED <<pc, outcome, infile_open, outfile_open>>
    /\ UNCHANGED <<DEFAULT_STR, unit, keys, filters, log>>

(* The input ends: the with blocks close the files and the counters are
   logged. *)
EndOfInput ==
    /\ pc = "scan"
    /\ infile_open' = FALSE
    /\ outfile_open' = FALSE
    /\ log' = log \o <<<<"Processed "  >> \o StrOf(totalRecords) \o <<" total records">>,
                       <<"Selected ">> \o StrOf(selectedRecords) \o <<" records">>>>
    /\ pc' = "done"
    /\ UNCHANGED <<DEFAULT_STR, outcome, unit, keys, filters, lines, outfile,
                   totalRecords, selectedRecords>>

NextArff ==
    \/ ParseOptions
    \/ CallToArff
    \/ OpenOutput
    \/ OpenInput
    \/ WriteRelation
    \/ WriteMetaString
    \/ WriteDataMarker
    \/ ProcessLine
    \/ EndOfInput

SpecArff == Init /\ [][NextArff]_vars

----------------------------------------------------------------------------
(* Properties of get_attribute (SpecAttr) *)

OnlyNines(s) == Len(s) >= 1 /\ \A i \in 1 .. Len(s) : s[i] = "9"

HasBlank(s) == \E i \in 1 .. Len(s) : s[i] = " "

TheSlice == _get_from_seer(attr, row)

(* C1: the value of a plain field is "?" when its slice is made of the digit
   9 only, "?" when the slice holds a blank, and the slice itself otherwise. *)
C1_PlainValue ==
    (pc = "called" /\ attr.cls = "SeerAttribute") =>
        outcome = Return(IF OnlyNines(TheSlice) \/ HasBlank(TheSlice)
                         THEN <<"?">> ELSE TheSlice)

(* C2: when the survival-time slice holds 9999 or a blank, get_attribute of
   SurvivalTimeRecode returns "?" and raises nothing. *)
C2_MissingSurvivalTime ==
    (/\ pc = "called"
     /\ attr.cls = "SurvivalTimeRecode"
     /\ (Contains(TheSlice, <<"9", "9", "9", "9">>) \/ HasBlank(TheSlice))) =>
        outcome = Return(<<"?">>)

IsYYMM(s) ==
    Len(s) = 4 /\ (\A i \in 1 .. 4 : s[i] \in Digits) /\ s # <<"9", "9", "9", "9">>

TotalMonths(s) ==
    (DigitValue(s[1]) * 10 + DigitValue(s[2])) * 12 + DigitValue(s[3]) * 10 + DigitValue(s[4])

(* C3: for a slice YYMM of four digits that is not 9999, _to_months gives the
   decimal numeral of years * 12 + months, and get_attribute returns "1"
   when that total is at most DEFAULT_STR and "2" otherwise. *)
C3_MonthsAndClass ==
    (pc = "called" /\ attr.cls = "SurvivalTimeRecode" /\ IsYYMM(TheSlice)) =>
        /\ _to_months(attr, row).exc = ""
        /\ DecimalValue(_to_months(attr, row).val) = TotalMonths(TheSlice)
        /\ _to_months(attr, row).val = StrOf(TotalMonths(TheSlice))
        /\ outcome = Return(IF TotalMonths(TheSlice) <= DEFAULT_STR
                            THEN <<"1">> ELSE <<"2">>)

(* 13 months against a threshold of 12: class 2 *)
C3_Witness ==
    /\ pc = "called"
    /\ attr.cls = "SurvivalTimeRecode"
    /\ DEFAULT_STR = 12
    /\ TheSlice = <<"0", "1", "0", "1">>
    /\ outcome = Return(<<"2">>)

(* C7: extracting a field from a row shorter than the field's span fails with
   OutOfRange; no value is returned. *)
C7_ShortRowFails ==
    (pc = "called" /\ Len(row) < end(attr)) => outcome.exc = "OutOfRange"

----------------------------------------------------------------------------
(* Properties of format_instance (SpecFormat) *)

Commas(s) == Cardinality({i \in 1 .. Len(s) : s[i] = ","})

(* C8: for a declared attribute list and a row as long as every field's span,
   format_instance returns an output with exactly len(attributes) - 1 commas
   that neither begins nor ends with a comma. *)
C8_Separators ==
    (/\ pc = "formatted"
     /\ Len(attributes) >= 1
     /\ \A i \in 1 .. Len(attributes) : end(attributes[i]) <= Len(row)) =>
        /\ outcome.exc = ""
        /\ Commas(outcome.val) = Len(attributes) - 1
        /\ outcome.val # <<>>
        /\ Head(outcome.val) # ","
        /\ outcome.val[Len(outcome.val)] # ","

----------------------------------------------------------------------------
(* Properties of the combinator (SpecComb) *)

Reorderings(funcs) ==
    {[i \in 1 .. Len(funcs) |-> funcs[p[i]]] : p \in Permutations(1 .. Len(funcs))}

(* C4: the function returned by get_truth_combinator accepts a row exactly
   when every listed predicate accepts it (so it accepts every row for the
   empty list), and every reordering of the list accepts the same rows. *)
C4_LogicalAnd ==
    pc = "reduced" =>
        /\ Truthy(outcome.val) <=>
               \A i \in 1 .. Len(func_list) : Truthy(call(func_list[i], row).val)
        /\ \A other \in Reorderings(func_list) :
               /\ is_all_true(other, row).exc = ""
               /\ Truthy(is_all_true(other, row).val) <=> Truthy(outcome.val)

(* a predicate that rejects the row, then one that accepts it: rejected *)
C4_Witness ==
    /\ pc = "reduced"
    /\ Len(func_list) = 2
    /\ ~Truthy(call(func_list[1], row).val)
    /\ Truthy(call(func_list[2], row).val)
    /\ ~Truthy(outcome.val)

(* C9: once a predicate of the list has returned false, no later predicate
   of the list is evaluated on the row. *)
C9_ShortCircuit ==
    \A j \in 1 .. Len(results) : \A i \in 1 .. j - 1 : Truthy(results[i])

(* C9 as amended: is_all_true calls the predicates in list order, each on
   the row, whatever the earlier ones returned, and combines the results only
   when every predicate of the list has been called. *)
C9_EvaluatesAll ==
    /\ \A i \in 1 .. Len(results) : results[i] = call(func_list[i], row).val
    /\ pc = "reduced" => Len(results) = Len(func_list)

(* the second predicate was called after the first returned false *)
C9_Witness ==
    /\ pc = "reduced"
    /\ Len(results) = 2
    /\ ~Truthy(results[1])

----------------------------------------------------------------------------
(* Properties of to_arff (SpecArff) *)

Ended == pc \in {"done", "raised"}

HeaderLen == Len(keys) + 2

Accepted(line) == selects(filters, line).exc = "" /\ Truthy(selects(filters, line).val)

DataSection == SubSeq(outfile, HeaderLen + 1, Len(outfile))

(* C5: when to_arff ends after a scan, the data section holds one formatted
   line for each accepted line read, in the order read, totalRecords is the
   number of lines read and selectedRecords the number of data lines. *)
C5_EndToEnd ==
    (Ended /\ Len(outfile) >= HeaderLen) =>
        LET accepted == SelectSeq(lines, Accepted)
        IN  /\ Len(DataSection) = Len(accepted)
            /\ \A i \in 1 .. Len(DataSection) :
                   i <= Len(accepted) =>
                       DataSection[i] = format_instance(accepted[i], keys).val \o <<"\n">>
            /\ totalRecords = Len(lines)
            /\ selectedRecords = Len(DataSection)

RECURSIVE Joined(_)
Joined(vals) ==
    IF vals = <<>> THEN <<>>
    ELSE IF Len(vals) = 1 THEN vals[1]
    ELSE vals[1] \o <<",">> \o Joined(Tail(vals))

ValuesOf(line) == [j \in 1 .. Len(keys) |-> get_attribute(keys[j], line).val]

(* C6: the first write is the relation line, the next len(keys) writes are
   the attribute declarations in the order of keys, then comes the blank line
   with the @data marker, and every later write is a data row whose i-th
   value is the value the i-th declared attribute computes from a line read. *)
C6_WriteOrder ==
    \A i \in 1 .. Len(outfile) :
        /\ i = 1 => outfile[i] = <<"@relation breast", "\n">>
        /\ (1 < i /\ i <= Len(keys) + 1) =>
               outfile[i] = <<"@attribute ", keys[i - 1].name, " ", keys[i - 1].datatype, "\n">>
        /\ i = HeaderLen => outfile[i] = <<"\n", "@data", "\n">>
        /\ i > HeaderLen =>
               \E k \in 1 .. Len(lines) : outfile[i] = Joined(ValuesOf(lines[k])) \o <<"\n">>

(* a run that ended with data rows of several values *)
C6_Witness ==
    /\ pc = "done"
    /\ Len(keys) >= 2
    /\ Len(outfile) >= HeaderLen + 2

(* C10: when to_arff has ended, by the end of the input or by an exception,
   neither file is open. *)
C10_FilesClosed == Ended => (~infile_open /\ ~outfile_open)

(* a predicate raised while both files were open, and both were closed *)
C10_Witness ==
    /\ pc = "raised"
    /\ outcome.exc = "TypeError"
    /\ Len(lines) >= 1
    /\ Len(outfile) >= HeaderLen
    /\ ~infile_open
    /\ ~outfile_open

====
